---------------------------- MODULE Spec2Model ----------------------------
(***************************************************************************)
(* Burrows-Wheeler transform of williamzhu17/bwt: the forward transform    *)
(* (src/src/bwt.py), the rank-based inverse (src/src/inverse_bwt.py), the  *)
(* sentinel scan find_unique_char and the two command-line drivers.        *)
(*                                                                         *)
(* A Python str / bytes value is a sequence of code points 0..255; a       *)
(* Python list index r (0-based, negative values counting from the end) is *)
(* kept as the integer r and read through Index.                           *)
(***************************************************************************)
EXTENDS Integers, Sequences, FiniteSets, TLC

VARIABLES
    pc,               \* position of the running program
    input,            \* forward's parameter `input` (the Block)
    delimiter,        \* forward's parameter `delimiter` / bwt.py main's `delimiter`
    bwt_str,          \* forward's return value
    transformed,      \* inverse's parameter `transformed`
    inv_delimiter,    \* inverse's parameter `delimiter`
    occ_table,        \* inverse: list occ_table
    occ_before,       \* inverse: dict occ_before
    first_occurrence, \* inverse: dict first_occurrence
    delimiter_row,    \* inverse: delimiter_row
    row,              \* inverse: row
    result,           \* inverse: list result
    inv_result,       \* inverse's return value
    input_file,       \* bytes of the file the encoder reads (args.input_file of bwt.py)
    block_size,       \* args.block_size of both drivers
    used_bytes,       \* find_unique_char: set used_bytes
    scan_pos,         \* find_unique_char: offset of its file object f
    delimiter_byte,   \* find_unique_char's return value / main's delimiter_byte
    encoded_file,     \* bytes of the encoder's output file, the decoder's input file
    recovered_file,   \* bytes of the decoder's output file
    in_pos,           \* offset of the running driver's infile
    enc_ret,          \* return value of bwt.py main, once it returned
    dec_ret,          \* return value of inverse_bwt.py main, once it returned
    forward_calls,    \* history: the arguments of each forward call of the encoder run
    chained,          \* history: the decoder runs on the output of the encoder run
    visited,          \* history: the rows the loop of inverse has stepped to, in order
    pair              \* two Blocks transformed and decoded slice by slice

fwdVars == <<input, delimiter, bwt_str>>
invState == <<occ_table, occ_before, first_occurrence, delimiter_row, row, result,
              inv_result, visited>>
invVars == <<transformed, inv_delimiter, invState>>
fucVars == <<used_bytes, scan_pos, delimiter_byte>>
drvVars == <<input_file, block_size, encoded_file, recovered_file, in_pos, enc_ret,
             dec_ret, forward_calls, chained>>

vars == <<pc, fwdVars, invVars, fucVars, drvVars, pair>>

---------------------------------------------------------------------------
(* Bounds of the model and the characters the blocks are drawn from.       *)

MaxLen == 4         \* longest Block drawn by Init
MaxTail == 2        \* longest free tail of a file drawn by InitSel
MaxFile == 3        \* longest small file drawn by InitDriver
MaxBlockSize == 2   \* largest block size drawn by InitDriver
MaxPairLen == 2     \* longest Block of a pair drawn by InitPair
MaxExtraIter == 1   \* iterations past n for which a non-terminating loop is followed

None == -1          \* Python's None, where the code holds an int or None
DefaultBlockSize == 128
ReadSize == 8192    \* f.read(8192)
ByteValues == 256   \* range(256)

Dollar == 36        \* '$', the default of inverse's parameter `delimiter`

\* the characters '$', 'a', 'b', 'n' by code point
Alphabet == {Dollar, 97, 98, 110}

\* "banana" and "annb$aa"
Banana == <<98, 97, 110, 97, 110, 97>>
BananaBwt == <<97, 110, 110, 98, Dollar, 97, 97>>

SeqsUpTo(S, k) == UNION {[1..m -> S] : m \in 0..k}
Blocks == SeqsUpTo(Alphabet, MaxLen) \cup {Banana, BananaBwt}

---------------------------------------------------------------------------
(* Python primitives.                                                      *)

Range(s) == {s[i] : i \in DOMAIN s}

\* seq[r] for a Python list or str: a negative r counts from the end.
Index(seq, r) == IF r >= 0 THEN seq[r + 1] ELSE seq[Len(seq) + r + 1]

\* a < b for two Python strings: code point order, a proper prefix is smaller.
StrLess(a, b) ==
    \/ \E i \in 1..Len(a) :
          /\ i <= Len(b)
          /\ a[i] < b[i]
          /\ \A j \in 1..(i - 1) : a[j] = b[j]
    \/ /\ Len(a) < Len(b)
       /\ \A j \in 1..Len(a) : a[j] = b[j]

\* list.sort(): insertion of each element after the elements not larger than it.
RECURSIVE InsertSorted(_, _)
InsertSorted(sorted, x) ==
    IF sorted = <<>> THEN <<x>>
    ELSE IF StrLess(x, Head(sorted)) THEN <<x>> \o sorted
    ELSE <<Head(sorted)>> \o InsertSorted(Tail(sorted), x)

RECURSIVE SortStrings(_)
SortStrings(list) ==
    IF list = <<>> THEN <<>>
    ELSE InsertSorted(SortStrings(SubSeq(list, 1, Len(list) - 1)), list[Len(list)])

Reverse_Omitted(list) == list

\* list.reverse()
Reverse(list) == [i \in 1..Len(list) |-> list[Len(list) + 1 - i]]

---------------------------------------------------------------------------
(* forward, bwt.py 36-58.                                                  *)

RotateRight_KeepLast(cur_str) == <<cur_str[Len(cur_str)]>> \o cur_str

\* cur_str[-1] + cur_str[:-1]
RotateRight(cur_str) ==
    <<cur_str[Len(cur_str)]>> \o SubSeq(cur_str, 1, Len(cur_str) - 1)

\* the list cyclic_rotations after k passes of the loop started at cur_str
RECURSIVE CyclicRotations(_, _)
CyclicRotations(cur_str, k) ==
    IF k = 0 THEN <<>>
    ELSE <<RotateRight(cur_str)>> \o CyclicRotations(RotateRight(cur_str), k - 1)

forward_NoDelimiter(block, delim) ==
    LET rotations == SortStrings(CyclicRotations(block, Len(block)))
    IN  [i \in 1..Len(rotations) |-> rotations[i][Len(rotations[i])]]

forward_unsorted(block, delim) ==
    LET augmented == block \o <<delim>>
        rotations == CyclicRotations(augmented, Len(augmented))
    IN  [i \in 1..Len(rotations) |-> rotations[i][Len(rotations[i])]]

forward(block, delim) ==
    LET augmented == block \o <<delim>>
        N == Len(augmented)
        cyclic_rotations == SortStrings(CyclicRotations(augmented, N))
    IN  [i \in 1..N |-> cyclic_rotations[i][Len(cyclic_rotations[i])]]

---------------------------------------------------------------------------
(* inverse, inverse_bwt.py 5-45.                                           *)

\* occ_before.get(ch, 0)
DictGet(dict, key, default) == IF key \in DOMAIN dict THEN dict[key] ELSE default

\* dict[key] = value
DictSet(dict, key, value) ==
    [k \in DOMAIN dict \cup {key} |-> IF k = key THEN value ELSE dict[k]]

RECURSIVE ScanPass_CountsSelf(_, _, _, _)
ScanPass_CountsSelf(text, delim, i, st) ==
    IF i >= Len(text) THEN st
    ELSE LET ch == text[i + 1]
             occ == DictGet(st.occ_before, ch, 0) + 1
         IN  ScanPass_CountsSelf(text, delim, i + 1,
                      [occ_table |-> Append(st.occ_table, occ),
                       occ_before |-> DictSet(st.occ_before, ch, occ),
                       delimiter_row |-> IF ch = delim THEN i ELSE st.delimiter_row])

\* the first loop, lines 16-25, from position i (0-based) on
RECURSIVE ScanPass(_, _, _, _)
ScanPass(text, delim, i, st) ==
    IF i >= Len(text) THEN st
    ELSE LET ch == text[i + 1]
             occ == DictGet(st.occ_before, ch, 0)
         IN  ScanPass(text, delim, i + 1,
                      [occ_table |-> Append(st.occ_table, occ),
                       occ_before |-> DictSet(st.occ_before, ch, occ + 1),
                       delimiter_row |-> IF ch = delim THEN i ELSE st.delimiter_row])

\* sorted(occ_before.keys())
RECURSIVE SortedKeys(_)
SortedKeys(keys) ==
    IF keys = {} THEN <<>>
    ELSE LET least == CHOOSE k \in keys : \A other \in keys : k <= other
         IN  <<least>> \o SortedKeys(keys \ {least})

RECURSIVE FirstOccurrencePass_CountsOne(_, _, _, _)
FirstOccurrencePass_CountsOne(keys, counts, total, table) ==
    IF keys = <<>> THEN table
    ELSE FirstOccurrencePass_CountsOne(Tail(keys), counts, total + 1,
                                       DictSet(table, Head(keys), total))

\* the second loop, lines 28-32, over the keys still to visit
RECURSIVE FirstOccurrencePass(_, _, _, _)
FirstOccurrencePass(keys, counts, total, table) ==
    IF keys = <<>> THEN table
    ELSE FirstOccurrencePass(Tail(keys), counts, total + counts[Head(keys)],
                             DictSet(table, Head(keys), total))

LFStep_NoRank(r) == first_occurrence[Index(transformed, r)]

\* row = first_occurrence[transformed[row]] + occ_table[row]
LFStep(r) == first_occurrence[Index(transformed, r)] + Index(occ_table, r)

InvBuild_KeepsResult ==
    /\ pc = "inv_build"
    /\ IF Len(transformed) = 0
       THEN /\ pc' = "inv_return"
            /\ inv_result' = <<>>
            /\ UNCHANGED <<occ_table, occ_before, first_occurrence, delimiter_row,
                           row, result, visited>>
       ELSE LET st == ScanPass(transformed, inv_delimiter, 0,
                               [occ_table |-> <<>>, occ_before |-> <<>>,
                                delimiter_row |-> -1])
            IN  /\ occ_table' = st.occ_table
                /\ occ_before' = st.occ_before
                /\ delimiter_row' = st.delimiter_row
                /\ first_occurrence' =
                       FirstOccurrencePass(SortedKeys(DOMAIN st.occ_before),
                                           st.occ_before, 0, <<>>)
                /\ result' = result
                /\ row' = st.delimiter_row
                /\ visited' = <<>>
                /\ pc' = "inv_loop"
                /\ UNCHANGED inv_result
    /\ UNCHANGED <<fwdVars, transformed, inv_delimiter, fucVars, drvVars, pair>>

\* lines 10-36: the empty input returns at once; otherwise both tables are built
InvBuild ==
    /\ pc = "inv_build"
    /\ IF Len(transformed) = 0
       THEN /\ pc' = "inv_return"
            /\ inv_result' = <<>>
            /\ UNCHANGED <<occ_table, occ_before, first_occurrence, delimiter_row,
                           row, result, visited>>
       ELSE LET st == ScanPass(transformed, inv_delimiter, 0,
                               [occ_table |-> <<>>, occ_before |-> <<>>,
                                delimiter_row |-> -1])
            IN  /\ occ_table' = st.occ_table
                /\ occ_before' = st.occ_before
                /\ delimiter_row' = st.delimiter_row
                /\ first_occurrence' =
                       FirstOccurrencePass(SortedKeys(DOMAIN st.occ_before),
                                           st.occ_before, 0, <<>>)
                /\ result' = <<>>
                /\ row' = st.delimiter_row
                /\ visited' = <<>>
                /\ pc' = "inv_loop"
                /\ UNCHANGED inv_result
    /\ UNCHANGED <<fwdVars, transformed, inv_delimiter, fucVars, drvVars, pair>>

\* one pass of `while True`, lines 37-42, and lines 44-45 on break
InvLoop ==
    /\ pc = "inv_loop"
    /\ Len(result) < Len(transformed) + MaxExtraIter
    /\ LET next_row == LFStep(row)
           ch == Index(transformed, next_row)
       IN  /\ row' = next_row
           /\ visited' = Append(visited, next_row)
           /\ IF ch = inv_delimiter
              THEN /\ inv_result' = Reverse(result)
                   /\ pc' = "inv_return"
                   /\ UNCHANGED result
              ELSE /\ result' = Append(result, ch)
                   /\ UNCHANGED <<pc, inv_result>>
    /\ UNCHANGED <<fwdVars, transformed, inv_delimiter, occ_table, occ_before,
                   first_occurrence, delimiter_row, fucVars, drvVars, pair>>

---------------------------------------------------------------------------
(* The reference inverse of the specification (MatrixInverter): n rounds   *)
(* of prepending the column and re-sorting, then the row ending in the     *)
(* Sentinel, stripped of it.                                               *)

\* one round: the i-th byte of the column is prepended to the i-th working
\* string, and the working strings are sorted again
MatrixRound(column, rows) ==
    SortStrings([i \in 1..Len(column) |-> <<column[i]>> \o rows[i]])

RECURSIVE MatrixRounds(_, _, _)
MatrixRounds(column, rows, k) ==
    IF k = 0 THEN rows
    ELSE MatrixRounds(column, MatrixRound(column, rows), k - 1)

MatrixInverter(column, sentinel) ==
    LET n == Len(column)
        table == MatrixRounds(column, [i \in 1..n |-> <<>>], n)
        ending == {i \in 1..n : table[i][n] = sentinel}
    IN  IF ending = {} THEN <<None>>
        ELSE SubSeq(table[CHOOSE i \in ending : TRUE], 1, n - 1)

---------------------------------------------------------------------------
(* find_unique_char, bwt.py 5-33.                                          *)

Min(a, b) == IF a < b THEN a ELSE b

\* f.read(size) at offset pos of a file holding `data`
FileRead(data, pos, size) == SubSeq(data, pos + 1, Min(pos + size, Len(data)))

FirstUnused_Fallback(byte_val, used) ==
    LET unused == {b \in byte_val..(ByteValues - 1) : b \notin used}
    IN  IF unused = {} THEN 0
        ELSE CHOOSE b \in unused : \A other \in unused : b <= other

FirstUnused_Range255(byte_val, used) ==
    LET unused == {b \in byte_val..(ByteValues - 2) : b \notin used}
    IN  IF unused = {} THEN None
        ELSE CHOOSE b \in unused : \A other \in unused : b <= other

\* lines 28-33: the for loop over range(256), from byte_val on. The loop
\* returns at the first value, in ascending order, that passes its test, and
\* line 33 is reached when none does.
FirstUnused(byte_val, used) ==
    LET unused == {b \in byte_val..(ByteValues - 1) : b \notin used}
    IN  IF unused = {} THEN None
        ELSE CHOOSE b \in unused : \A other \in unused : b <= other

\* one pass of `while True`, lines 21-25
FucRead ==
    /\ pc = "fuc_read"
    /\ LET chunk == FileRead(input_file, scan_pos, ReadSize)
       IN  IF Len(chunk) = 0
           THEN /\ pc' = "fuc_select"
                /\ UNCHANGED <<used_bytes, scan_pos>>
           ELSE /\ used_bytes' = used_bytes \cup Range(chunk)
                /\ scan_pos' = scan_pos + Len(chunk)
                /\ UNCHANGED pc
    /\ UNCHANGED <<fwdVars, invVars, delimiter_byte, drvVars, pair>>

\* lines 27-33
FucSelect ==
    /\ pc = "fuc_select"
    /\ delimiter_byte' = FirstUnused(0, used_bytes)
    /\ pc' = "fuc_return"
    /\ UNCHANGED <<fwdVars, invVars, used_bytes, scan_pos, drvVars, pair>>

---------------------------------------------------------------------------
(* The transform pair called on one Block: forward, then inverse on its    *)
(* output, or inverse on an arbitrary string.                              *)

\* the state of inverse, find_unique_char and the drivers before any of them ran
Idle ==
    /\ bwt_str = <<>>
    /\ transformed = <<>>
    /\ occ_table = <<>>
    /\ occ_before = <<>>
    /\ first_occurrence = <<>>
    /\ delimiter_row = -1
    /\ row = -1
    /\ result = <<>>
    /\ inv_result = <<>>
    /\ used_bytes = {}
    /\ scan_pos = 0
    /\ delimiter_byte = None
    /\ recovered_file = <<>>
    /\ in_pos = 0
    /\ enc_ret = None
    /\ dec_ret = None
    /\ forward_calls = <<>>
    /\ visited = <<>>

\* no pair of Blocks is being processed
NoPair ==
    [a |-> <<>>, b |-> <<>>, joined |-> <<>>, cur |-> "none", done |-> {},
     out_a |-> <<>>, out_b |-> <<>>]

Init ==
    /\ pc = "call"
    /\ input \in Blocks
    /\ delimiter \in Alphabet
    /\ inv_delimiter = delimiter
    /\ input_file = <<>>
    /\ encoded_file = <<>>
    /\ block_size = DefaultBlockSize
    /\ chained = FALSE
    /\ pair = NoPair
    /\ Idle

CallForward ==
    /\ pc = "call"
    /\ bwt_str' = forward(input, delimiter)
    /\ pc' = "forward_done"
    /\ UNCHANGED <<input, delimiter, invVars, fucVars, drvVars, pair>>

CallInverse ==
    /\ pc = "forward_done"
    /\ transformed' = bwt_str
    /\ inv_delimiter' = delimiter
    /\ pc' = "inv_build"
    /\ UNCHANGED <<fwdVars, invState, fucVars, drvVars, pair>>

CallInverseOn ==
    /\ pc = "call"
    /\ transformed' = input
    /\ inv_delimiter' = delimiter
    /\ pc' = "inv_build"
    /\ UNCHANGED <<fwdVars, invState, fucVars, drvVars, pair>>

Next == CallForward \/ CallInverse \/ CallInverseOn \/ InvBuild \/ InvLoop

Spec == Init /\ [][Next]_vars

---------------------------------------------------------------------------
(* Two Blocks transformed independently, their outputs concatenated, and   *)
(* each slice of the concatenation decoded on its own, in either order.    *)

\* the slice of the concatenation that belongs to block k
Slice(k) ==
    IF k = "a" THEN SubSeq(pair.joined, 1, Len(pair.a) + 1)
    ELSE SubSeq(pair.joined, Len(pair.a) + 2, Len(pair.joined))

InitPair ==
    /\ pc = "pair_call"
    /\ delimiter \in Alphabet
    /\ \E a, b \in SeqsUpTo(Alphabet \ {delimiter}, MaxPairLen) :
           pair = [NoPair EXCEPT !.a = a, !.b = b]
    /\ input = <<>>
    /\ inv_delimiter = delimiter
    /\ input_file = <<>>
    /\ encoded_file = <<>>
    /\ block_size = DefaultBlockSize
    /\ chained = FALSE
    /\ Idle

PairForward ==
    /\ pc = "pair_call"
    /\ pair' = [pair EXCEPT !.joined = forward(pair.a, delimiter)
                                          \o forward(pair.b, delimiter)]
    /\ pc' = "pair_cut"
    /\ UNCHANGED <<fwdVars, invVars, fucVars, drvVars>>

PairDecode ==
    /\ pc = "pair_cut"
    /\ \E k \in {"a", "b"} \ pair.done :
           /\ transformed' = Slice(k)
           /\ pair' = [pair EXCEPT !.cur = k]
    /\ inv_delimiter' = delimiter
    /\ pc' = "inv_build"
    /\ UNCHANGED <<fwdVars, invState, fucVars, drvVars>>

PairCollect ==
    /\ pc = "inv_return"
    /\ pair' = [pair EXCEPT !.done = pair.done \cup {pair.cur},
                            !.out_a = IF pair.cur = "a" THEN inv_result ELSE pair.out_a,
                            !.out_b = IF pair.cur = "b" THEN inv_result ELSE pair.out_b]
    /\ pc' = IF pair.done \cup {pair.cur} = {"a", "b"} THEN "pair_done" ELSE "pair_cut"
    /\ UNCHANGED <<fwdVars, invVars, fucVars, drvVars>>

NextPair == PairForward \/ PairDecode \/ InvBuild \/ InvLoop \/ PairCollect

SpecPair == InitPair /\ [][NextPair]_vars

---------------------------------------------------------------------------
(* find_unique_char called on one file.                                    *)

\* the bytes lo, lo+1, ..., hi-1 in ascending order
Ascending(lo, hi) == [i \in 1..(hi - lo) |-> lo + i - 1]

\* ReadSize bytes 0 followed by one byte 1: the file takes two reads
TwoReads == [i \in 1..(ReadSize + 1) |-> IF i <= ReadSize THEN 0 ELSE 1]

ScanFiles ==
    {Ascending(lo, hi) \o tail :
        lo \in 0..1, hi \in 1..ByteValues,
        tail \in SeqsUpTo({0, 1, ByteValues - 1}, MaxTail)}
    \cup {TwoReads}

InitSel ==
    /\ pc = "fuc_read"
    /\ input_file \in ScanFiles
    /\ input = <<>>
    /\ delimiter = Dollar
    /\ inv_delimiter = Dollar
    /\ encoded_file = <<>>
    /\ block_size = DefaultBlockSize
    /\ chained = FALSE
    /\ pair = NoPair
    /\ Idle

NextSel == FucRead \/ FucSelect

SpecSel == InitSel /\ [][NextSel]_vars

---------------------------------------------------------------------------
(* The drivers: main of bwt.py (60-109) and main of inverse_bwt.py (47-87). *)
(* The files exist and can be opened; nothing else writes them meanwhile.  *)

\* chr(delimiter_byte): the one-character string of that code point
chr(byte) == <<byte>>

\* bytes.decode('latin-1'): byte k becomes the character of code point k
DecodeLatin1(bytes) == [i \in DOMAIN bytes |-> chr(bytes[i])[1]]

\* str.encode('latin-1'): the character of code point k <= 255 becomes byte k
EncodeLatin1(str) == [i \in DOMAIN str |-> CHOOSE byte \in 0..(ByteValues - 1) : chr(byte) = <<str[i]>>]

\* bwt.py 69-74: the block size test, then the call of find_unique_char
EncMain ==
    /\ pc = "enc_main"
    /\ IF block_size <= 0
       THEN /\ enc_ret' = 1
            /\ pc' = "enc_return"
            /\ UNCHANGED <<used_bytes, scan_pos>>
       ELSE /\ used_bytes' = {}
            /\ scan_pos' = 0
            /\ pc' = "fuc_read"
            /\ UNCHANGED enc_ret
    /\ UNCHANGED <<fwdVars, invVars, delimiter_byte, input_file, block_size,
                   encoded_file, recovered_file, in_pos, dec_ret, forward_calls,
                   chained, pair>>

EncOpen_NoHeader ==
    /\ pc = "fuc_return"
    /\ IF delimiter_byte = None
       THEN /\ enc_ret' = 1
            /\ pc' = "enc_return"
            /\ UNCHANGED <<delimiter, encoded_file, in_pos>>
       ELSE /\ delimiter' = chr(delimiter_byte)[1]
            /\ encoded_file' = <<>>
            /\ in_pos' = 0
            /\ pc' = "enc_read"
            /\ UNCHANGED enc_ret
    /\ UNCHANGED <<input, bwt_str, invVars, fucVars, input_file, block_size,
                   recovered_file, dec_ret, forward_calls, chained, pair>>

EncOpen_FixedLiteral ==
    /\ pc = "fuc_return"
    /\ IF delimiter_byte = None
       THEN /\ enc_ret' = 1
            /\ pc' = "enc_return"
            /\ UNCHANGED <<delimiter, encoded_file, in_pos>>
       ELSE /\ delimiter' = Dollar
            /\ encoded_file' = <<delimiter_byte>>
            /\ in_pos' = 0
            /\ pc' = "enc_read"
            /\ UNCHANGED enc_ret
    /\ UNCHANGED <<input, bwt_str, invVars, fucVars, input_file, block_size,
                   recovered_file, dec_ret, forward_calls, chained, pair>>

\* bwt.py 76-86: no sentinel is a failure; otherwise both files are opened
\* (the output file is truncated) and the header byte is written
EncOpen ==
    /\ pc = "fuc_return"
    /\ IF delimiter_byte = None
       THEN /\ enc_ret' = 1
            /\ pc' = "enc_return"
            /\ UNCHANGED <<delimiter, encoded_file, in_pos>>
       ELSE /\ delimiter' = chr(delimiter_byte)[1]
            /\ encoded_file' = <<delimiter_byte>>
            /\ in_pos' = 0
            /\ pc' = "enc_read"
            /\ UNCHANGED enc_ret
    /\ UNCHANGED <<input, bwt_str, invVars, fucVars, input_file, block_size,
                   recovered_file, dec_ret, forward_calls, chained, pair>>

\* bwt.py 88-100 and 109: one pass of the chunk loop
EncBlock ==
    /\ pc = "enc_read"
    /\ LET chunk == FileRead(input_file, in_pos, block_size)
       IN  IF Len(chunk) = 0
           THEN /\ enc_ret' = 0
                /\ pc' = "enc_return"
                /\ UNCHANGED <<input, bwt_str, encoded_file, in_pos, forward_calls>>
           ELSE LET chunk_str == DecodeLatin1(chunk)
                    transformed_block == forward(chunk_str, delimiter)
                IN  /\ input' = chunk_str
                    /\ bwt_str' = transformed_block
                    /\ forward_calls' =
                           Append(forward_calls,
                                  [input |-> chunk_str, delimiter |-> delimiter])
                    /\ encoded_file' = encoded_file \o EncodeLatin1(transformed_block)
                    /\ in_pos' = in_pos + Len(chunk)
                    /\ UNCHANGED <<pc, enc_ret>>
    /\ UNCHANGED <<delimiter, invVars, fucVars, input_file, block_size,
                   recovered_file, dec_ret, chained, pair>>

\* the decoder is run on the file the encoder wrote, with the same block size
\* (tests/performance_medium.py 116-128 reads the forward file back)
RunDecoder ==
    /\ pc = "enc_return"
    /\ enc_ret = 0
    /\ chained' = TRUE
    /\ pc' = "dec_main"
    /\ UNCHANGED <<fwdVars, invVars, fucVars, input_file, block_size, encoded_file,
                   recovered_file, in_pos, enc_ret, dec_ret, forward_calls, pair>>

DecMain_NegativeOnly ==
    /\ pc = "dec_main"
    /\ IF block_size < 0
       THEN /\ dec_ret' = 1
            /\ pc' = "dec_return"
            /\ UNCHANGED <<recovered_file, in_pos>>
       ELSE /\ recovered_file' = <<>>
            /\ in_pos' = 0
            /\ pc' = "dec_read"
            /\ UNCHANGED dec_ret
    /\ UNCHANGED <<fwdVars, invVars, fucVars, input_file, block_size, encoded_file,
                   enc_ret, forward_calls, chained, pair>>

\* inverse_bwt.py 56-65: the block size test, then both files are opened
DecMain ==
    /\ pc = "dec_main"
    /\ IF block_size <= 0
       THEN /\ dec_ret' = 1
            /\ pc' = "dec_return"
            /\ UNCHANGED <<recovered_file, in_pos>>
       ELSE /\ recovered_file' = <<>>
            /\ in_pos' = 0
            /\ pc' = "dec_read"
            /\ UNCHANGED dec_ret
    /\ UNCHANGED <<fwdVars, invVars, fucVars, input_file, block_size, encoded_file,
                   enc_ret, forward_calls, chained, pair>>

\* inverse_bwt.py 66-77 and 87: a chunk of block_size + 1 bytes is read and
\* inverse(chunk_str) is called, its delimiter defaulting to '$'
DecRead ==
    /\ pc = "dec_read"
    /\ LET bwt_chunk_size == block_size + 1
           chunk == FileRead(encoded_file, in_pos, bwt_chunk_size)
       IN  IF Len(chunk) = 0
           THEN /\ dec_ret' = 0
                /\ pc' = "dec_return"
                /\ UNCHANGED <<transformed, inv_delimiter, in_pos>>
           ELSE /\ transformed' = DecodeLatin1(chunk)
                /\ inv_delimiter' = Dollar
                /\ in_pos' = in_pos + Len(chunk)
                /\ pc' = "inv_build"
                /\ UNCHANGED dec_ret
    /\ UNCHANGED <<fwdVars, invState, fucVars, input_file, block_size, encoded_file,
                   recovered_file, enc_ret, forward_calls, chained, pair>>

\* inverse_bwt.py 77-78: inverse returned and its result is written
DecWrite ==
    /\ pc = "inv_return"
    /\ recovered_file' = recovered_file \o EncodeLatin1(inv_result)
    /\ pc' = "dec_read"
    /\ UNCHANGED <<fwdVars, invVars, fucVars, input_file, block_size, encoded_file,
                   in_pos, enc_ret, dec_ret, forward_calls, chained, pair>>

\* every byte value once, in ascending order
AllBytes == Ascending(0, ByteValues)

Files ==
    SeqsUpTo({0, Dollar, 97}, MaxFile)
    \cup {AllBytes, Ascending(1, ByteValues) \o <<0, 97>>,
          Ascending(0, Dollar), Ascending(0, Dollar) \o <<97, 97>>}

BlockSizes == (-1)..MaxBlockSize

\* either the encoder is started on a file, or the decoder alone on any file
InitDriver ==
    /\ block_size \in BlockSizes
    /\ \/ /\ pc = "enc_main"
          /\ input_file \in Files
          /\ encoded_file = <<>>
       \/ /\ pc = "dec_main"
          /\ input_file = <<>>
          /\ encoded_file \in Files
    /\ input = <<>>
    /\ delimiter = Dollar
    /\ inv_delimiter = Dollar
    /\ chained = FALSE
    /\ pair = NoPair
    /\ Idle

NextDriver ==
    \/ EncMain \/ FucRead \/ FucSelect \/ EncOpen \/ EncBlock
    \/ RunDecoder
    \/ DecMain \/ DecRead \/ InvBuild \/ InvLoop \/ DecWrite

SpecDriver == InitDriver /\ [][NextDriver]_vars

---------------------------------------------------------------------------
(* Properties of the transform pair, checked under Spec.                   *)

\* number of positions of s holding c
Count(s, c) == Cardinality({i \in DOMAIN s : s[i] = c})

\* inverse is running on, or has returned from, the output of forward
OnForwardOutput == bwt_str # <<>> /\ pc \in {"inv_build", "inv_loop", "inv_return"}

\* C1: for every Block and every Sentinel absent from it, inverse applied to
\* forward's output stops within its n passes and returns exactly the Block.
C1_RoundTrip ==
    (OnForwardOutput /\ delimiter \notin Range(input)) =>
        /\ pc = "inv_loop" => Len(result) < Len(transformed)
        /\ pc = "inv_return" => inv_result = input

\* C1 happens: a Block of three or more characters, some below and some above
\* the Sentinel, has come back from the round trip.
C1_Witness ==
    /\ OnForwardOutput
    /\ pc = "inv_return"
    /\ delimiter \notin Range(input)
    /\ Len(input) >= 3
    /\ \E lo \in Range(input) : lo < delimiter
    /\ \E hi \in Range(input) : hi > delimiter
    /\ inv_result = input

\* C2: inverse neither starts the reconstruction nor returns a block for a
\* (non-empty) transformed block that does not hold exactly one Sentinel.
C2_MalformedRejected ==
    (pc \in {"inv_loop", "inv_return"} /\ transformed # <<>>) =>
        Count(transformed, inv_delimiter) = 1

\* C3: the reconstruction loop reads only rows 0..n-1 and makes at most n
\* passes (a pass past the n-th repeats a row, and the loop then never stops).
C3_LoopStops ==
    pc = "inv_loop" =>
        /\ row \in 0..(Len(transformed) - 1)
        /\ Len(result) < Len(transformed)

\* C6: forward("banana", "$") is "annb$aa" and inverse("annb$aa", "$") is "banana".
C6_KnownVector ==
    /\ (pc = "forward_done" /\ input = Banana /\ delimiter = Dollar) =>
           bwt_str = BananaBwt
    /\ (pc = "inv_return" /\ transformed = BananaBwt /\ inv_delimiter = Dollar) =>
           inv_result = Banana

\* C6 happens: "banana" went through forward and its output through inverse.
C6_Witness ==
    /\ pc = "inv_return"
    /\ input = Banana
    /\ delimiter = Dollar
    /\ bwt_str = BananaBwt
    /\ transformed = bwt_str
    /\ inv_result = Banana

\* C7: forward's output is one character longer than the Block, also when the
\* Block holds the Sentinel.
C7_LengthLaw ==
    pc = "forward_done" => Len(bwt_str) = Len(input) + 1

\* C7 happens: forward returned for a Block that holds the Sentinel.
C7_Witness ==
    /\ pc = "forward_done"
    /\ delimiter \in Range(input)
    /\ Len(input) >= 2
    /\ Len(bwt_str) = Len(input) + 1

\* C8: forward's output holds the Sentinel at exactly one position when the
\* Block does not hold it.
C8_SingleSentinel ==
    (pc = "forward_done" /\ delimiter \notin Range(input)) =>
        Count(bwt_str, delimiter) = 1

\* C8 happens: forward returned for a Block of two or more characters without
\* the Sentinel, and the Sentinel is not the last character of the output.
C8_Witness ==
    /\ pc = "forward_done"
    /\ delimiter \notin Range(input)
    /\ Len(input) >= 2
    /\ Count(bwt_str, delimiter) = 1
    /\ bwt_str[Len(bwt_str)] # delimiter

\* the round trip of a Block without the Sentinel is in, or past, the loop
RoundTripLoop ==
    /\ OnForwardOutput
    /\ delimiter \notin Range(input)
    /\ pc \in {"inv_loop", "inv_return"}

\* C13: on forward's output for a Block without the Sentinel, the rank-based
\* inverse returns what the reference matrix inverse returns.
C13_OracleAgreement ==
    (RoundTripLoop /\ pc = "inv_return") =>
        inv_result = MatrixInverter(transformed, inv_delimiter)

\* C13 happens: both inverses agree on the output of forward for a Block of
\* three or more characters, one of them repeated.
C13_Witness ==
    /\ RoundTripLoop
    /\ pc = "inv_return"
    /\ Len(input) >= 3
    /\ Cardinality(Range(input)) < Len(input)
    /\ Cardinality(Range(input)) >= 2
    /\ inv_result = MatrixInverter(transformed, inv_delimiter)

\* C16: for a non-empty input, occ_table[i] counts the earlier positions
\* holding the character of position i, and first_occurrence[c], for each
\* character c of the input, counts the positions holding a smaller character.
C16_Tables ==
    (pc \in {"inv_loop", "inv_return"} /\ transformed # <<>>) =>
        LET n == Len(transformed)
        IN  /\ Len(occ_table) = n
            /\ \A i \in 1..n :
                   occ_table[i] =
                       Cardinality({j \in 1..(i - 1) : transformed[j] = transformed[i]})
            /\ DOMAIN first_occurrence = Range(transformed)
            /\ \A c \in Range(transformed) :
                   first_occurrence[c] =
                       Cardinality({j \in 1..n : transformed[j] < c})

\* C16 happens: the tables are built for an input of three or more characters,
\* at least two of them distinct and one repeated, with no Sentinel in it.
C16_Witness ==
    /\ pc = "inv_loop"
    /\ Len(transformed) >= 3
    /\ Cardinality(Range(transformed)) \in 2..(Len(transformed) - 1)
    /\ inv_delimiter \notin Range(transformed)
    /\ \E i \in DOMAIN occ_table : occ_table[i] >= 1
    /\ \E c \in DOMAIN first_occurrence : first_occurrence[c] >= 2

\* C17: on forward's output, of length n, for a Block without the Sentinel,
\* the LF step is a bijection on the rows 0..n-1, and the loop, started at the
\* Sentinel's row, steps to every row exactly once, appends n - 1 characters
\* and stops on its n-th step, back at the Sentinel's row.
C17_OneCycle ==
    RoundTripLoop =>
        LET n == Len(transformed)
            rows == 0..(n - 1)
        IN  /\ {LFStep(r) : r \in rows} = rows
            /\ delimiter_row \in rows
            /\ Range(visited) \subseteq rows
            /\ Cardinality(Range(visited)) = Len(visited)
            /\ pc = "inv_loop" =>
                   /\ Len(visited) < n
                   /\ Len(result) = Len(visited)
                   /\ delimiter_row \notin Range(visited)
            /\ pc = "inv_return" =>
                   /\ Len(visited) = n
                   /\ Range(visited) = rows
                   /\ visited[n] = delimiter_row
                   /\ row = delimiter_row
                   /\ Len(result) = n - 1

\* C17 happens: the loop has returned after stepping through the rows of the
\* output of forward for a Block of three or more characters.
C17_Witness ==
    /\ RoundTripLoop
    /\ pc = "inv_return"
    /\ Len(input) >= 3
    /\ Len(visited) = Len(input) + 1
    /\ visited[Len(visited)] = delimiter_row
    /\ delimiter_row > 0

---------------------------------------------------------------------------
(* Properties of the pair of Blocks, checked under SpecPair.               *)

\* C15: each slice of forward(A, S) ++ forward(B, S), cut at len(A) + 1 and
\* decoded on its own, gives back its own Block, whichever slice is decoded
\* first, so that the two results concatenated are A ++ B.
C15_BlockIndependence ==
    /\ "a" \in pair.done => pair.out_a = pair.a
    /\ "b" \in pair.done => pair.out_b = pair.b
    /\ pc = "pair_done" => pair.out_a \o pair.out_b = pair.a \o pair.b

\* C15 happens: two different Blocks of different lengths are both decoded,
\* the second slice first.
C15_Witness ==
    /\ pc = "pair_done"
    /\ pair.cur = "a"
    /\ Len(pair.a) >= 2
    /\ Len(pair.b) = 1
    /\ pair.b[1] \in Range(pair.a)
    /\ pair.out_a \o pair.out_b = pair.a \o pair.b

---------------------------------------------------------------------------
(* Properties of find_unique_char, checked under SpecSel.                  *)

\* C9: find_unique_char returns the smallest byte value absent from the file,
\* and None exactly when the file holds all 256 byte values.
C9_SmallestUnused ==
    pc = "fuc_return" =>
        LET present == Range(input_file)
        IN  /\ delimiter_byte = None <=> (0..(ByteValues - 1)) \subseteq present
            /\ delimiter_byte # None =>
                  /\ delimiter_byte \in 0..(ByteValues - 1)
                  /\ delimiter_byte \notin present
                  /\ (0..(delimiter_byte - 1)) \subseteq present

\* C9 happens: the scan returned the largest byte value for a file that holds
\* every smaller one, byte 0 coming last.
C9_Witness ==
    /\ pc = "fuc_return"
    /\ delimiter_byte = ByteValues - 1
    /\ Len(input_file) >= ByteValues - 1
    /\ input_file[Len(input_file)] = 0
    /\ input_file[1] # 0

---------------------------------------------------------------------------
(* Properties of the drivers, checked under SpecDriver.                    *)

\* the file holds all 256 byte values
HoldsAllBytes(file) == (0..(ByteValues - 1)) \subseteq Range(file)

\* C4: the decoder driver, run with the same block size on the encoder's
\* output, ends with a file equal to the encoder's input.
C4_StreamRoundTrip ==
    (chained /\ pc = "dec_return") =>
        /\ dec_ret = 0
        /\ recovered_file = input_file

\* C5: the first byte of the encoded file is the encoder's Sentinel, and every
\* inverse call of the decoder takes that byte as its delimiter.
C5_HeaderSentinel ==
    /\ (pc = "enc_read" \/ (pc = "enc_return" /\ enc_ret = 0)) =>
           encoded_file[1] = delimiter_byte
    /\ (chained /\ pc \in {"inv_build", "inv_loop", "inv_return"}) =>
           inv_delimiter = encoded_file[1]

\* C10: for an input file that holds all 256 byte values the encoder never
\* gets past the sentinel selection: it calls forward for no block, writes no
\* byte, and returns 1.
C10_Exhaustion ==
    HoldsAllBytes(input_file) =>
        /\ pc \in {"enc_main", "fuc_read", "fuc_select", "fuc_return", "enc_return"}
        /\ forward_calls = <<>>
        /\ encoded_file = <<>>
        /\ pc = "enc_return" => enc_ret = 1

\* C10 happens: with a valid block size, the scan of a file that holds all 256
\* byte values returned None and the encoder returned 1.
C10_Witness ==
    /\ HoldsAllBytes(input_file)
    /\ block_size > 0
    /\ pc = "enc_return"
    /\ delimiter_byte = None
    /\ scan_pos = Len(input_file)
    /\ enc_ret = 1

\* C11: with a block size <= 0 each driver returns 1 at once: no sentinel
\* scan, no forward or inverse call, nothing read and nothing written.
C11_InvalidBlockSize ==
    block_size <= 0 =>
        /\ pc \in {"enc_main", "enc_return", "dec_main", "dec_return"}
        /\ pc = "enc_return" => enc_ret = 1
        /\ pc = "dec_return" => dec_ret = 1
        /\ used_bytes = {} /\ scan_pos = 0 /\ delimiter_byte = None
        /\ forward_calls = <<>> /\ bwt_str = <<>>
        /\ transformed = <<>> /\ visited = <<>>
        /\ in_pos = 0
        /\ recovered_file = <<>>
        /\ pc \in {"enc_main", "enc_return"} => encoded_file = <<>>

\* C11 happens: the encoder, started on a non-empty file with block size 0,
\* has returned 1.
C11_Witness ==
    /\ block_size = 0
    /\ input_file # <<>>
    /\ pc = "enc_return"
    /\ enc_ret = 1
    /\ encoded_file = <<>>

\* the TransformedBlocks of the chunks of `data`, of `size` bytes each but
\* for the last, in chunk order
RECURSIVE TransformedBlocks(_, _, _)
TransformedBlocks(data, size, sentinel) ==
    IF data = <<>> THEN <<>>
    ELSE LET k == Min(size, Len(data))
         IN  forward(SubSeq(data, 1, k), sentinel)
                 \o TransformedBlocks(SubSeq(data, k + 1, Len(data)), size, sentinel)

\* the encoded file is the header byte followed by the TransformedBlocks of
\* the chunks read so far, in chunk order
Encoding == pc = "enc_read" \/ (pc = "enc_return" /\ enc_ret = 0)

LayoutSoFar ==
    Encoding =>
        /\ in_pos = Len(input_file) \/ (pc = "enc_read" /\ in_pos % block_size = 0)
        /\ encoded_file =
               <<delimiter_byte>>
                   \o TransformedBlocks(SubSeq(input_file, 1, in_pos), block_size,
                                        delimiter_byte)

\* length of the TransformedBlock of the i-th forward call of the encoder run
BlockLen(i) == Len(forward(forward_calls[i].input, forward_calls[i].delimiter))

\* C12 as claimed: the layout, every TransformedBlock being block_size + 1
\* bytes long, the final one included.
C12_AllBlocksFull ==
    /\ LayoutSoFar
    /\ \A i \in DOMAIN forward_calls : BlockLen(i) = block_size + 1

\* C12 amended: the layout holds; every TransformedBlock but the final one is
\* block_size + 1 bytes long, and the final one is one byte longer than the
\* final chunk, which holds between 1 and block_size bytes.
C12_EncodedLayout ==
    /\ LayoutSoFar
    /\ \A i \in DOMAIN forward_calls :
           /\ BlockLen(i) = Len(forward_calls[i].input) + 1
           /\ BlockLen(i) \in 2..(block_size + 1)
           /\ i < Len(forward_calls) => BlockLen(i) = block_size + 1
           /\ (Encoding /\ in_pos < Len(input_file)) => BlockLen(i) = block_size + 1
    /\ (pc = "enc_return" /\ enc_ret = 0) =>
           Len(encoded_file) = 1 + Len(input_file) + Len(forward_calls)

\* C12 happens: the encoder returned 0 for a file of two chunks, the final
\* one shorter than the block size.
C12_Witness ==
    /\ pc = "enc_return"
    /\ enc_ret = 0
    /\ Len(forward_calls) >= 2
    /\ BlockLen(Len(forward_calls)) < block_size + 1
    /\ encoded_file[1] = delimiter_byte
    /\ Len(encoded_file) = 1 + Len(input_file) + Len(forward_calls)

\* C14: no forward call is made before the scan of the whole input has
\* selected the Sentinel; every forward call gets that Sentinel, and no chunk
\* passed to forward holds it.
C14_SentinelInvariant ==
    /\ pc \in {"enc_main", "fuc_read", "fuc_select", "fuc_return"} => forward_calls = <<>>
    /\ forward_calls # <<>> =>
           /\ scan_pos = Len(input_file)
           /\ used_bytes = Range(input_file)
           /\ delimiter_byte \in (0..(ByteValues - 1)) \ used_bytes
           /\ \A i \in DOMAIN forward_calls :
                  /\ <<forward_calls[i].delimiter>> = chr(delimiter_byte)
                  /\ forward_calls[i].delimiter \notin Range(forward_calls[i].input)

\* C14 happens: the encoder returned 0 after three forward calls.
C14_Witness ==
    /\ pc = "enc_return"
    /\ enc_ret = 0
    /\ Len(forward_calls) >= 3
    /\ \A i \in DOMAIN forward_calls :
           forward_calls[i].delimiter = delimiter_byte

=============================================================================
